---- MODULE Spec2Model ----
(***************************************************************************)
(* A model of the two utilities of med_segmentation:                       *)
(*   - src/convert_mat_to_nifti.py, the batch script that turns the four   *)
(*     class masks of every subject into one labelled volume, and          *)
(*   - block() of src/models/basic_block.py, the builder of a sequence of  *)
(*     network layers.                                                     *)
(* Strings are sequences of one-character strings, so that split('_'),     *)
(* slicing and join are computed as Python computes them.  Arrays are      *)
(* records of a shape and a function from the index triples of that shape  *)
(* to values.                                                              *)
(***************************************************************************)
EXTENDS Integers, Sequences, FiniteSets, TLC

VARIABLES
    root,                      \* os.listdir(root_mat_files), in listing order
    matfiles,                  \* subject -> its rework.mat (present or not, and its arrays)
    outdir,                    \* path_save_labels: file name -> stored volume
    labels_already_processed,  \* the list computed at line 16
    idx,                       \* position of the subject loop in root
    pc,                        \* "loop", "compose", "save", "done", "failed"
    mat_content,               \* the arrays loaded for the current subject
    img,                       \* the accumulator of the current subject
    cls,                       \* position of the class loop in labels
    run,                       \* number of the current run of the script
    loaded,                    \* subjects whose loadmat was called in this run
    written,                   \* file names saved in this run
    failedAt,                  \* index in root at which an error was raised, 0 if none
    prevOut,                   \* outdir as the previous run left it
    startOut,                  \* outdir as it was when the current run started
    order,                     \* the caller's order list (block)
    order_param,               \* the caller's order_param list (block)
    kwargs,                    \* the keyword arguments of the calls of block
    calls,                     \* outcome of every call of block so far
    applied                    \* layers applied by func of every call, once it ran

convVars == <<root, matfiles, outdir, labels_already_processed, idx, pc,
              mat_content, img, cls, run, loaded, written, failedAt, prevOut,
              startOut>>
blockVars == <<order, order_param, kwargs, calls, applied>>
vars == <<root, matfiles, outdir, labels_already_processed, idx, pc,
          mat_content, img, cls, run, loaded, written, failedAt, prevOut,
          startOut, order, order_param, kwargs, calls, applied>>

(***************************************************************************)
(* Bounds of the model.                                                    *)
(***************************************************************************)
MaxSubjects == 2
MaxRuns == 2
MaxOrder == 2
MaxCalls == 2

(***************************************************************************)
(* Python strings and lists.                                               *)
(***************************************************************************)
Min(a, b) == IF a < b THEN a ELSE b

RECURSIVE Split(_, _)
Split(s, sep) ==
    IF \A i \in 1..Len(s) : s[i] # sep
    THEN <<s>>
    ELSE LET i == CHOOSE k \in 1..Len(s) :
                      s[k] = sep /\ \A j \in 1..(k - 1) : s[j] # sep
         IN  <<SubSeq(s, 1, i - 1)>> \o Split(SubSeq(s, i + 1, Len(s)), sep)

Slice(l, a, b) == SubSeq(l, a + 1, Min(b, Len(l)))

RECURSIVE Join(_, _)
Join(l, sep) ==
    IF Len(l) = 0 THEN <<>>
    ELSE IF Len(l) = 1 THEN l[1]
    ELSE l[1] \o <<sep>> \o Join(Tail(l), sep)

RECURSIVE SetToSeq(_)
SetToSeq(S) ==
    IF S = {} THEN <<>>
    ELSE LET x == CHOOSE y \in S : TRUE IN <<x>> \o SetToSeq(S \ {x})

Range(l) == {l[i] : i \in 1..Len(l)}

(***************************************************************************)
(* Configuration of the script.                                            *)
(***************************************************************************)
KnownBad == <<"1", "0", "3", "8", "2", "8", "_", "3", "0">>
ImageSize == <<2, 1, 1>>
ClassOrder == <<"P_BG", "P_AT", "P_LT", "P_VAT">>
labelsBackgroundOne == [P_BG |-> 1, P_AT |-> 1, P_LT |-> 2, P_VAT |-> 3]
labelsExchanged == [P_BG |-> 0, P_AT |-> 1, P_LT |-> 3, P_VAT |-> 2]
labels == [P_BG |-> 0, P_AT |-> 1, P_LT |-> 2, P_VAT |-> 3]
Classes == Range(ClassOrder)

FileName(subject) ==
    <<"A", "T", "_">> \o subject \o <<".", "n", "i", "i", ".", "g", "z">>

ProcessedKey(name) == Join(Slice(Split(name, "_"), 1, 3), "_")

ProcessedKeys(dir) ==
    LET names == SetToSeq(DOMAIN dir)
    IN  [i \in 1..Len(names) |-> ProcessedKey(names[i])]

ScriptStartIndexed(dir) ==
    IF \E name \in DOMAIN dir : Len(Split(name, "_")) < 3
    THEN [pc |-> "failed", keys |-> <<>>]
    ELSE [pc |-> "loop", keys |-> ProcessedKeys(dir)]
ScriptStart(dir) == [pc |-> "loop", keys |-> ProcessedKeys(dir)]

(***************************************************************************)
(* The test of line 21: a list comprehension compared with None by         *)
(* identity.  A Python value is a record with its type as tag.             *)
(***************************************************************************)
PyNone == [tag |-> "NoneType"]
PyList(l) == [tag |-> "list", val |-> l]
IsNone(v) == v.tag = "NoneType"

Matches(subject, lap) ==
    PyList([k \in 1..Cardinality({i \in 1..Len(lap) : lap[i] = subject}) |-> subject])

AlreadyProcessed(subject, lap) == IsNone(Matches(subject, lap))

SkippedNeverBad(subject, lap) == AlreadyProcessed(subject, lap)
Skipped(subject, lap) ==
    subject = KnownBad \/ AlreadyProcessed(subject, lap)

(***************************************************************************)
(* numpy arrays of three axes.                                             *)
(***************************************************************************)
Idx(shape) ==
    (0..(shape[1] - 1)) \X (0..(shape[2] - 1)) \X (0..(shape[3] - 1))

Zeros(shape) == [shape |-> shape, data |-> [p \in Idx(shape) |-> 0]]

SwapAxesIdentity(a) == a
SwapAxes(a) ==
    LET s == <<a.shape[2], a.shape[1], a.shape[3]>>
    IN  [shape |-> s, data |-> [p \in Idx(s) |-> a.data[<<p[2], p[1], p[3]>>]]]

Broadcastable(s, t) == \A ax \in 1..3 : s[ax] = t[ax] \/ s[ax] = 1

BroadcastIdx(p, s) ==
    <<IF s[1] = 1 THEN 0 ELSE p[1],
      IF s[2] = 1 THEN 0 ELSE p[2],
      IF s[3] = 1 THEN 0 ELSE p[3]>>

AddScaled(acc, seg, code) ==
    [shape |-> acc.shape,
     data  |-> [p \in Idx(acc.shape) |->
                   acc.data[p] + seg.data[BroadcastIdx(p, seg.shape)] * code]]

Ushort(a) ==
    [dtype |-> "uint16", shape |-> a.shape,
     data  |-> [p \in Idx(a.shape) |-> a.data[p] % 65536]]

NibSaveNoClobber(dir, name, vol) ==
    LET target == IF name \in DOMAIN dir THEN name \o <<".", "1">> ELSE name
    IN  [f \in DOMAIN dir \cup {target} |-> IF f = target THEN vol ELSE dir[f]]
NibSave(dir, name, vol) ==
    [f \in DOMAIN dir \cup {name} |-> IF f = name THEN vol ELSE dir[f]]

PropagateIsolated(i) == [pc |-> "loop", idx |-> i + 1]
Propagate(i) == [pc |-> "failed", idx |-> i]

(***************************************************************************)
(* The composite volume of a complete set of arrays, as lines 26-34        *)
(* compute it when no step fails.                                          *)
(***************************************************************************)
RECURSIVE Accumulate(_, _, _)
Accumulate(m, acc, c) ==
    IF c > Len(ClassOrder) THEN acc
    ELSE Accumulate(m,
                    AddScaled(acc, SwapAxes(m[ClassOrder[c]]), labels[ClassOrder[c]]),
                    c + 1)

Composable(m) ==
    /\ Classes \subseteq DOMAIN m
    /\ \A c \in Classes : Broadcastable(SwapAxes(m[c]).shape, ImageSize)

Composite(m) == Ushort(Accumulate(m, Zeros(ImageSize), 1))

(***************************************************************************)
(* Inputs: the subject directories, their container files and the files    *)
(* already in the output directory.                                        *)
(***************************************************************************)
Subject1 == <<"1", "_", "2">>
Subject2 == <<"3", "_", "4">>
SubjectKeys == {KnownBad, Subject1, Subject2}

Vals == {0, 1, 2}
InShape == <<ImageSize[2], ImageSize[1], ImageSize[3]>>
InputShapes == {InShape, ImageSize, <<1, 1, 1>>}

Arrays(S) == {[shape |-> S, data |-> d] : d \in [Idx(S) -> Vals]}
OneHot(S, q) == [shape |-> S, data |-> [p \in Idx(S) |-> IF p = q THEN 1 ELSE 0]]
Restrict(f, D) == [x \in D |-> f[x]]

\* Every set of four class arrays of one shape.
RichMats == UNION {[Classes -> Arrays(S)] : S \in InputShapes}

MatA == [P_BG |-> Zeros(InShape), P_AT |-> OneHot(InShape, <<0, 0, 0>>),
         P_LT |-> OneHot(InShape, <<0, 1, 0>>), P_VAT |-> Zeros(InShape)]
MatB == [P_BG |-> OneHot(InShape, <<0, 0, 0>>), P_AT |-> Zeros(InShape),
         P_LT |-> Zeros(InShape), P_VAT |-> OneHot(InShape, <<0, 1, 0>>)]
NoMat == Restrict(MatA, {})
Absent == [present |-> FALSE, arrays |-> NoMat]
File(m) == [present |-> TRUE, arrays |-> m]
SampleFiles ==
    {File(MatA), File(MatB), Absent,
     File(Restrict(MatA, Classes \ {"P_LT"})),
     File([MatA EXCEPT !["P_VAT"] = Zeros(ImageSize)])}

Roots ==
    {r \in UNION {[1..n -> SubjectKeys] : n \in 0..MaxSubjects} :
        \A i, j \in 1..Len(r) : i # j => r[i] # r[j]}

OldVol == [dtype |-> "uint16", shape |-> ImageSize,
           data |-> [p \in Idx(ImageSize) |-> 3]]
OldNames == {FileName(Subject1), <<"A", "T", "_">> \o Subject1 \o <<"_", "x">>, <<"x">>}
OutDirs == {[f \in D |-> OldVol] : D \in SUBSET OldNames}

NoImg == Zeros(<<0, 0, 0>>)

(***************************************************************************)
(* The block builder is idle while the script runs, and the script while   *)
(* the builder is called.                                                  *)
(***************************************************************************)
BlockIdle ==
    /\ order = PyNone /\ order_param = PyNone /\ kwargs = <<>>
    /\ calls = <<>> /\ applied = <<>>

StartRun(dir) ==
    /\ labels_already_processed = ScriptStart(dir).keys
    /\ pc = ScriptStart(dir).pc
    /\ idx = 1 /\ cls = 1
    /\ mat_content = NoMat /\ img = NoImg
    /\ loaded = {} /\ written = {} /\ failedAt = 0

Init ==
    /\ root \in Roots
    /\ matfiles \in {f \in [SubjectKeys -> SampleFiles] :
                        \A s \in SubjectKeys \ Range(root) : f[s] = Absent}
    /\ outdir \in OutDirs
    /\ StartRun(outdir)
    /\ run = 1 /\ prevOut = outdir /\ startOut = outdir
    /\ BlockIdle

InitCompose ==
    /\ root \in {<<Subject1>>, <<KnownBad, Subject1>>}
    /\ matfiles \in {[s \in SubjectKeys |-> IF s = Subject1 THEN File(m) ELSE Absent] :
                        m \in RichMats}
    /\ outdir = [f \in {} |-> OldVol]
    /\ StartRun(outdir)
    /\ run = 1 /\ prevOut = outdir /\ startOut = outdir
    /\ BlockIdle

(***************************************************************************)
(* The steps of the script.                                                *)
(***************************************************************************)
\* Lines 19-22: continue.
SkipSubject ==
    /\ pc = "loop" /\ idx <= Len(root)
    /\ Skipped(root[idx], labels_already_processed)
    /\ idx' = idx + 1
    /\ UNCHANGED <<root, matfiles, outdir, labels_already_processed, pc,
                   mat_content, img, cls, run, loaded, written, failedAt,
                   prevOut, startOut>>
    /\ UNCHANGED blockVars

\* Lines 24-26: loadmat raises when the container file is missing.
LoadMat ==
    /\ pc = "loop" /\ idx <= Len(root)
    /\ ~Skipped(root[idx], labels_already_processed)
    /\ loaded' = loaded \cup {root[idx]}
    /\ IF matfiles[root[idx]].present
       THEN /\ mat_content' = matfiles[root[idx]].arrays
            /\ img' = Zeros(ImageSize)
            /\ cls' = 1
            /\ pc' = "compose"
            /\ UNCHANGED <<idx, failedAt>>
       ELSE /\ pc' = Propagate(idx).pc
            /\ idx' = Propagate(idx).idx
            /\ failedAt' = idx
            /\ UNCHANGED <<mat_content, img, cls>>
    /\ UNCHANGED <<root, matfiles, outdir, labels_already_processed, run,
                   written, prevOut, startOut>>
    /\ UNCHANGED blockVars

\* Lines 27-32, one class: KeyError for a missing array, ValueError for a
\* shape that does not broadcast into img.
AddClass ==
    /\ pc = "compose" /\ cls <= Len(ClassOrder)
    /\ LET seg_class == ClassOrder[cls] IN
       IF /\ seg_class \in DOMAIN mat_content
          /\ Broadcastable(SwapAxes(mat_content[seg_class]).shape, img.shape)
       THEN /\ img' = AddScaled(img, SwapAxes(mat_content[seg_class]), labels[seg_class])
            /\ cls' = cls + 1
            /\ pc' = IF cls = Len(ClassOrder) THEN "save" ELSE "compose"
            /\ UNCHANGED <<idx, failedAt>>
       ELSE /\ pc' = Propagate(idx).pc
            /\ idx' = Propagate(idx).idx
            /\ failedAt' = idx
            /\ UNCHANGED <<img, cls>>
    /\ UNCHANGED <<root, matfiles, outdir, labels_already_processed,
                   mat_content, run, loaded, written, prevOut, startOut>>
    /\ UNCHANGED blockVars

\* Lines 34-36.
SaveNifti ==
    /\ pc = "save"
    /\ outdir' = NibSave(outdir, FileName(root[idx]), Ushort(img))
    /\ written' = written \cup {FileName(root[idx])}
    /\ idx' = idx + 1
    /\ pc' = "loop"
    /\ UNCHANGED <<root, matfiles, labels_already_processed, mat_content, img,
                   cls, run, loaded, failedAt, prevOut, startOut>>
    /\ UNCHANGED blockVars

\* Line 18: the listing is exhausted.
Finish ==
    /\ pc = "loop" /\ idx > Len(root)
    /\ pc' = "done"
    /\ UNCHANGED <<root, matfiles, outdir, labels_already_processed, idx,
                   mat_content, img, cls, run, loaded, written, failedAt,
                   prevOut, startOut>>
    /\ UNCHANGED blockVars

\* The script is started again on the same directories.
RunAgain ==
    /\ pc \in {"done", "failed"} /\ run < MaxRuns
    /\ run' = run + 1
    /\ prevOut' = outdir
    /\ startOut' = outdir
    /\ labels_already_processed' = ScriptStart(outdir).keys
    /\ pc' = ScriptStart(outdir).pc
    /\ idx' = 1 /\ cls' = 1
    /\ mat_content' = NoMat /\ img' = NoImg
    /\ loaded' = {} /\ written' = {} /\ failedAt' = 0
    /\ UNCHANGED <<root, matfiles, outdir>>
    /\ UNCHANGED blockVars

(***************************************************************************)
(* block() of basic_block.py.  The caller owns two list objects, order and *)
(* order_param, and passes them (or None) with the same keyword arguments  *)
(* to every call.  A call that returns leaves a closure: func reads the    *)
(* list object that the name order was bound to, which is the caller's     *)
(* list when one was passed and a list of the call's own otherwise.        *)
(***************************************************************************)
Items == {"c", "r", "b"}
Rates == {25, 50}
DefaultOrder == <<"c", "r", "b">>
DefaultParam == <<"None", "None", "None">>

Orders == {PyNone} \cup
          {PyList(l) : l \in UNION {[1..n -> Items] : n \in 0..MaxOrder}}
OrderParams == {PyNone} \cup
               {PyList([i \in 1..n |-> "None"]) : n \in 0..MaxOrder}
Kwargs ==
    UNION {{[k \in K |-> IF k = "name" THEN 0 ELSE r] : r \in Rates} :
              K \in SUBSET {"name", "dropout"}}

\* Lines 35-37: order is padded with None up to the length of order_param.
Padded(l, n) == l \o [i \in 1..(n - Len(l)) |-> "None"]

\* Lines 46-53: the list after the loop over the keyword arguments.
WithDropout(l, kw) == IF "dropout" \in DOMAIN kw THEN Append(l, "d") ELSE l

\* Line 61: zip stops with the shorter of its arguments.
Zip(l, q) == [i \in 1..Min(Len(l), Len(q)) |-> <<l[i], q[i]>>]

\* Lines 61-139: the layers func applies, in order; an item that no branch
\* names (None) applies nothing.
Layer(item, rate) == IF item = "d" THEN <<"d", rate>> ELSE <<item, 0>>
LayersOf(l, q, rate) ==
    LET z == Zip(l, q)
        named == SelectSeq(z, LAMBDA e : e[1] # "None")
    IN  [i \in 1..Len(named) |-> Layer(named[i][1], rate)]

ConvIdle ==
    /\ root = <<>>
    /\ matfiles = [s \in SubjectKeys |-> Absent]
    /\ outdir = [f \in {} |-> OldVol]
    /\ labels_already_processed = <<>>
    /\ pc = "idle" /\ idx = 1 /\ cls = 1
    /\ mat_content = NoMat /\ img = NoImg
    /\ loaded = {} /\ written = {} /\ failedAt = 0
    /\ run = 1 /\ prevOut = outdir /\ startOut = outdir

InitBlock ==
    /\ order \in Orders
    /\ order_param \in OrderParams
    /\ kwargs \in Kwargs
    /\ calls = <<>>
    /\ applied = <<>>
    /\ ConvIdle

\* Lines 28-53 and 141: one call of block with the caller's arguments.
CallBlock ==
    /\ Len(calls) < MaxCalls
    /\ LET own    == IsNone(order)
           before == IF own THEN DefaultOrder ELSE order.val
           param  == IF IsNone(order_param) THEN DefaultParam ELSE order_param.val
           padded == Padded(before, Len(param))
           passed == Len(padded) = Len(param)
           after  == IF passed THEN WithDropout(padded, kwargs) ELSE padded
       IN  /\ order' = IF own THEN order ELSE PyList(after)
           /\ calls' = Append(calls,
                              [raised |-> ~passed,
                               own    |-> own,
                               list   |-> after,
                               param  |-> param,
                               before |-> before,
                               dropout |-> "dropout" \in DOMAIN kwargs,
                               rate   |-> IF "dropout" \in DOMAIN kwargs
                                          THEN kwargs["dropout"] ELSE 0])
           /\ applied' = Append(applied, PyNone)
    /\ UNCHANGED <<order_param, kwargs>>
    /\ UNCHANGED convVars

\* Lines 56-139: the function a call returned is applied to a tensor.
ApplyFunc ==
    /\ \E i \in 1..Len(calls) :
          /\ ~calls[i].raised
          /\ IsNone(applied[i])
          /\ LET l == IF calls[i].own THEN calls[i].list ELSE order.val
             IN  applied' = [applied EXCEPT
                              ![i] = PyList(LayersOf(l, calls[i].param, calls[i].rate))]
    /\ UNCHANGED <<order, order_param, kwargs, calls>>
    /\ UNCHANGED convVars

NextBlock == CallBlock \/ ApplyFunc

Next == SkipSubject \/ LoadMat \/ AddClass \/ SaveNifti \/ Finish \/ RunAgain

Spec == Init /\ [][Next]_vars
SpecCompose == InitCompose /\ [][Next]_vars
SpecBlock == InitBlock /\ [][NextBlock]_vars

(***************************************************************************)
(* Properties.                                                             *)
(***************************************************************************)
Ended == pc \in {"done", "failed"}
ArraysOf(s) == matfiles[s].arrays
SameShape(m) ==
    /\ Classes \subseteq DOMAIN m
    /\ \A c \in Classes : m[c].shape = m["P_BG"].shape
Swapped(S) == <<S[2], S[1], S[3]>>
WrittenSubjects == {i \in 1..Len(root) : FileName(root[i]) \in written}

\* C1: a listed subject whose key equals a processed-output key (tokens 2 and
\* 3 of a file name present in the output directory when the run started) is
\* skipped: its container file is not loaded and no file is written for it.
C1_ProcessedSkipped ==
    \A i \in 1..Len(root) :
        root[i] \in Range(labels_already_processed)
            => /\ root[i] \notin loaded
               /\ FileName(root[i]) \notin written

\* C2: the known-bad subject 103828_30 is never loaded and its file is never
\* written, whatever the directories hold; the exclusion does not end the
\* loop: every other subject the loop has passed was reached, and a run that
\* completes has passed them all.
C2_KnownBadExcluded ==
    /\ KnownBad \notin loaded
    /\ FileName(KnownBad) \notin written
    /\ \A i \in 1..Len(root) :
          (i < idx /\ root[i] # KnownBad) => root[i] \in loaded
    /\ pc = "done" => idx = Len(root) + 1

C2_Witness ==
    /\ pc = "done" /\ Len(root) = 2
    /\ root[1] = KnownBad
    /\ matfiles[KnownBad].present
    /\ FileName(root[2]) \in written

ClaimedCode(c) ==
    CASE c = "P_BG" -> 0 [] c = "P_AT" -> 1 [] c = "P_LT" -> 2 [] c = "P_VAT" -> 3

\* C3: at every voxel (i,j,k) of the input masks where one class array is 1
\* and the other three are 0, the stored composite holds that class's label
\* code at (j,i,k); where all four are 0 it holds 0.
C3_OneHotGivesCode ==
    \A n \in WrittenSubjects :
        LET m   == ArraysOf(root[n])
            vol == outdir[FileName(root[n])]
        IN  \A p \in Idx(m["P_BG"].shape) :
                /\ \A c \in Classes :
                      (/\ m[c].data[p] = 1
                       /\ \A o \in Classes \ {c} : m[o].data[p] = 0)
                          => vol.data[<<p[2], p[1], p[3]>>] = ClaimedCode(c)
                /\ (\A c \in Classes : m[c].data[p] = 0)
                      => vol.data[<<p[2], p[1], p[3]>>] = 0

C3_Witness ==
    /\ Subject1 \in loaded /\ FileName(Subject1) \in written
    /\ ArraysOf(Subject1) =
          [P_BG |-> OneHot(InShape, <<0, 0, 0>>), P_AT |-> Zeros(InShape),
           P_LT |-> Zeros(InShape), P_VAT |-> OneHot(InShape, <<0, 1, 0>>)]
    /\ outdir[FileName(Subject1)].data[<<1, 0, 0>>] = 3
    /\ outdir[FileName(Subject1)].data[<<0, 0, 0>>] = 0

\* C4: the stored composite does not depend on the background mask: any
\* input that differs from the processed one only in the content of P_BG
\* (same shape) gives the same volume at every voxel.
C4_BackgroundInvariant ==
    \A n \in WrittenSubjects :
        LET m == ArraysOf(root[n])
        IN  \A bg \in Arrays(m["P_BG"].shape) :
                /\ Composable([m EXCEPT !["P_BG"] = bg])
                /\ Composite([m EXCEPT !["P_BG"] = bg]) = outdir[FileName(root[n])]

C4_Witness ==
    /\ FileName(Subject1) \in written
    /\ ArraysOf(Subject1)["P_BG"] =
          [shape |-> InShape, data |-> [p \in Idx(InShape) |-> 2]]
    /\ outdir[FileName(Subject1)].data[<<1, 0, 0>>] = 1

\* C5 as claimed: for four class arrays of any one shape S = (h, w, d),
\* composition succeeds and the composite has shape (w, h, d).
C5_AnyShape ==
    \A n \in 1..Len(root) :
        (/\ root[n] \in loaded
         /\ matfiles[root[n]].present
         /\ SameShape(ArraysOf(root[n]))
         /\ Ended)
            => /\ failedAt # n
               /\ FileName(root[n]) \in written
               /\ outdir[FileName(root[n])].shape =
                      Swapped(ArraysOf(root[n])["P_BG"].shape)

\* C5 as amended: for four class arrays of the one shape S = (h, w, d) with
\* (w, h, d) = image_size, composition succeeds and the composite has shape
\* (w, h, d); for any other S it either fails or gives a volume of shape
\* image_size, which is not (w, h, d).
C5_ConfiguredShape ==
    \A n \in 1..Len(root) :
        (/\ root[n] \in loaded
         /\ matfiles[root[n]].present
         /\ SameShape(ArraysOf(root[n]))
         /\ Ended)
            => LET S == ArraysOf(root[n])["P_BG"].shape
               IN  IF Swapped(S) = ImageSize
                   THEN /\ failedAt # n
                        /\ FileName(root[n]) \in written
                        /\ outdir[FileName(root[n])].shape = Swapped(S)
                   ELSE \/ failedAt = n
                        \/ /\ FileName(root[n]) \in written
                           /\ outdir[FileName(root[n])].shape = ImageSize

C5_Witness ==
    /\ pc = "done"
    /\ FileName(Subject1) \in written
    /\ ArraysOf(Subject1)["P_VAT"].shape = InShape
    /\ InShape # ImageSize
    /\ outdir[FileName(Subject1)].shape = ImageSize

\* C6: when a subject fails, the run stops there with the error propagated:
\* nothing is written for that subject, no later subject is loaded or
\* written, and every file written earlier in the run is still there with
\* the content it was written with; the other files are as the run found them.
C6_FailureStopsRun ==
    failedAt # 0 =>
        /\ pc = "failed" /\ idx = failedAt
        /\ FileName(root[failedAt]) \notin written
        /\ \A j \in (failedAt + 1)..Len(root) :
              root[j] \notin loaded /\ FileName(root[j]) \notin written
        /\ \A j \in 1..(failedAt - 1) :
              FileName(root[j]) \in written
                  => /\ FileName(root[j]) \in DOMAIN outdir
                     /\ outdir[FileName(root[j])] = Composite(ArraysOf(root[j]))
        /\ \A f \in DOMAIN startOut \ written :
              f \in DOMAIN outdir /\ outdir[f] = startOut[f]

C6_Witness ==
    /\ failedAt = 2 /\ pc = "failed"
    /\ FileName(root[1]) \in written
    /\ matfiles[root[2]].present

\* C7: a second run on the same directories leaves the output directory
\* with the same files, each with the same shape, values and element type,
\* as the first run left it.
C7_SecondRunSame == (run >= 2 /\ Ended) => outdir = prevOut

C7_Witness ==
    /\ run = 2 /\ pc = "done"
    /\ Cardinality(written) = 2
    /\ FileName(Subject1) \in DOMAIN startOut

\* C8: with no subject in the root directory the run ends without error,
\* whatever files the output directory holds, and writes nothing.
C8_EmptyRoot ==
    Len(root) = 0 =>
        /\ pc = "done" \/ (pc = "loop" /\ ENABLED Finish)
        /\ failedAt = 0
        /\ loaded = {} /\ written = {}
        /\ outdir = startOut

C8_Witness ==
    /\ Len(root) = 0 /\ pc = "done"
    /\ <<"x">> \in DOMAIN outdir

\* C9: the processed-output key derived from the file name written for a
\* subject <token>_<token> is the subject's key, so that the next run finds
\* the subject among the keys already processed.
C9_KeyRoundTrip ==
    \A n \in WrittenSubjects :
        /\ ProcessedKey(FileName(root[n])) = root[n]
        /\ root[n] \in Range(ProcessedKeys(outdir))

\* C10: a call of block with a dropout keyword and order, order_param of
\* equal length returns a function that applies every step of order and
\* then dropout with the given rate as its last step; and a later call with
\* the same caller-supplied list and arguments does not fail.
C10_DropoutLast ==
    ("dropout" \in DOMAIN kwargs /\ Len(calls) >= 1
        /\ Len(calls[1].before) = Len(calls[1].param))
    => /\ \A i \in 1..Len(calls) : ~calls[i].raised
       /\ \A i \in 1..Len(calls) :
             ~IsNone(applied[i])
                 => applied[i].val =
                        [j \in 1..Len(calls[1].before) |-> <<calls[1].before[j], 0>>]
                            \o << <<"d", kwargs["dropout"]>> >>
====
